---- MODULE Spec2Model ----
(***************************************************************************)
(* Model of camshift_tracking.cpp: the command line handling, the main     *)
(* capture/track/display/key loop, the mouse callback select_roi and the   *)
(* blocking ROI selection frame_roi.  The vision library calls are         *)
(* abstracted by what they leave in the program's variables.               *)
(***************************************************************************)
EXTENDS Integers, Sequences, FiniteSets, TLC

(* ---------------------------- bounds ----------------------------------- *)
\* frames are MaxX+1 pixels wide; a click lands on one pixel
MaxX == 2
\* the frame source delivers at most MaxFrames non-empty frames
MaxFrames == 3

(* ------------------------ program constants ---------------------------- *)
INT_MAX == 2147483647
NumPoints == 4

Xs == 0..MaxX
\* two pixel rows: enough to place a click above or below another
Ys == {0, 1}
Points == Xs \X Ys
Events == {"LBUTTONDOWN", "MOUSEMOVE", "RBUTTONDOWN"}
\* "none" is waitKey's -1 (no key within the delay)
Keys == {"i", "q", "x", "none"}
Paths == {"", "test.mov"}

VARIABLES
    pc,            \* position of main
    help,          \* the command line held the help flag
    argPath,       \* the command line's @video argument
    video_path,    \* main's video_path
    printedUsage,  \* parser.printMessage() was called
    cameraOpened,  \* "" (never opened), "cam0" or the file opened
    windowCreated, \* namedWindow + setMouseCallback done
    frame,         \* global frame
    roi_points,    \* global roi_points
    input_mode,    \* global input_mode
    orig_frame,    \* frame_roi's frozen clone
    roi_box,       \* main's roi_box
    roi_hist,      \* main's roi_hist
    ret,           \* the pair frame_roi returned, before main stores it
    key,           \* main's key
    selKey,        \* the last key waitKey(0) returned inside frame_roi
    captures,      \* number of executions of camera >> frame
    camshiftCalls, \* number of calls of apply_camshift
    clicksInSel,   \* left clicks delivered since frame_roi was entered
    selDone,       \* frame_roi has returned
    droppedClick,  \* a left click of the current wait was not recorded
    selClicks,     \* where the first four left clicks of selection mode landed
    iter           \* what the current loop iteration has done so far

vars == <<pc, help, argPath, video_path, printedUsage, cameraOpened,
          windowCreated, frame, roi_points, input_mode, orig_frame, roi_box,
          roi_hist, ret, key, selKey, captures, camshiftCalls, clicksInSel,
          selDone, droppedClick, selClicks, iter>>

(* ----------------------------- values ---------------------------------- *)
\* cv::Mat(): the empty image
EmptyFrame == [id |-> 0, marks |-> {}, outline |-> FALSE]
\* the id-th image of the source, as captured
RawFrame(n) == [id |-> n, marks |-> {}, outline |-> FALSE]
FrameEmpty(f) == f.id = 0

\* cv::Rect(): x = y = width = height = 0
Rect0 == [x |-> 0, y |-> 0, width |-> 0, height |-> 0]
\* cv::Mat() for the histogram
NoHist == [img |-> EmptyFrame, box |-> Rect0, bins |-> 0]
NoRet == <<NoHist, Rect0>>
NoIter == [tracked |-> FALSE, shown |-> FALSE, polled |-> FALSE]

Min(a, b) == IF a < b THEN a ELSE b
Max(a, b) == IF a > b THEN a ELSE b

\* cv::Rect(pt1, pt2): the library normalises the two corners
Rect(pt1, pt2) ==
    [x |-> Min(pt1[1], pt2[1]), y |-> Min(pt1[2], pt2[2]),
     width |-> Max(pt1[1], pt2[1]) - Min(pt1[1], pt2[1]),
     height |-> Max(pt1[2], pt2[2]) - Min(pt1[2], pt2[2])]
\* cv::Rect::empty()
RectEmpty(r) == r.width <= 0 \/ r.height <= 0
\* cv::Rect::tl() and br()
Tl(r) == <<r.x, r.y>>
Br(r) == <<r.x + r.width, r.y + r.height>>

Sum(p) == p[1] + p[2]

(* ------------------------ frame_roi's arithmetic ----------------------- *)
\* lines 67-69: roi_box, top_left, bottom_right default to zero,
\* min_sum = INT_MAX, max_sum = 0
ScanInit ==
    [min_sum |-> INT_MAX, max_sum |-> 0,
     top_left |-> <<0, 0>>, bottom_right |-> <<0, 0>>]

\* one pass of the loop body, lines 72-82
ScanStep(acc, point) ==
    LET sum == Sum(point)
        a1 == IF sum < acc.min_sum
              THEN [acc EXCEPT !.min_sum = sum, !.top_left = point]
              ELSE acc
    IN  IF sum > a1.max_sum
        THEN [a1 EXCEPT !.max_sum = sum, !.bottom_right = point]
        ELSE a1

RECURSIVE CornerScan(_, _)
CornerScan(acc, pts) ==
    IF pts = <<>> THEN acc
    ELSE CornerScan(ScanStep(acc, Head(pts)), Tail(pts))

\* lines 66-84: the ROI box of the recorded points
RoiBoxOf(pts) ==
    LET s == CornerScan(ScanInit, pts)
    IN  Rect(s.top_left, s.bottom_right)

\* lines 87-96: the 16-bin hue histogram of region box of image img
CalcHist(img, box) == [img |-> img, box |-> box, bins |-> 16]

(* ----------------------------- guards ---------------------------------- *)
\* line 41 without its size test
CanRecordNoLimit(mode, event, pts) == mode /\ event = "LBUTTONDOWN"

\* line 41 without its event test
CanRecordAnyEvent(mode, event, pts) == mode /\ Len(pts) < NumPoints

\* line 41: select_roi records the click
CanRecord(mode, event, pts) ==
    mode /\ event = "LBUTTONDOWN" /\ Len(pts) < NumPoints

\* line 60 testing for one point too few
NeedMorePointsOffByOne(pts) == Len(pts) < NumPoints - 1

\* line 60 waiting only while no point is recorded
NeedMorePointsAny(pts) == Len(pts) = 0

\* line 60: frame_roi keeps waiting
NeedMorePoints(pts) == Len(pts) < NumPoints

\* line 164 without its size test
WantsSelectAlways(k, pts) == k = "i"

\* line 164: main enters selection
WantsSelect(k, pts) == k = "i" /\ Len(pts) < NumPoints

\* lines 150-153 without the break
AfterCaptureNoBreak(f) == "decide"

\* lines 150-153: where main goes after camera >> frame
AfterCapture(f) == IF FrameEmpty(f) THEN "cleanup" ELSE "decide"

\* line 166 storing the box and dropping the histogram
AssignBoxOnly(r, hist, box) == <<hist, r[2]>>

\* line 166: std::tie(roi_hist, roi_box) = frame_roi()
AssignTie(r, hist, box) == r

\* line 116: the windows a search can end in
TrackWindows ==
    {w \in {Rect(a, b) : a \in Points, b \in Points} : ~RectEmpty(w)}

\* line 101 taking the box by non-const reference: the search writes the
\* window it found back into main's roi_box
BoxWrittenBack(box, found) == found

\* line 101: roi_box is a const reference, main's box stays as it is
BoxAfterCamshift(box, found) == box

\* line 57 sharing the pixels of frame instead of cloning them
SharedCopy(orig, cur) == IF orig.id = cur.id THEN cur ELSE orig

\* line 57: orig_frame is a clone, so drawing on frame leaves it as it was
FrozenCopy(orig, cur) == orig

\* line 63 with the wait ending as soon as the fourth point is recorded
AfterSelectClickEndsAtFour(pts) ==
    IF Len(pts) >= NumPoints THEN "select_loop" ELSE "select_wait"

\* line 63: waitKey(0) keeps waiting after the callback has run
AfterSelectClick(pts) == "select_wait"

(* ------------------------------ Init ----------------------------------- *)
Init ==
    /\ pc = "start"
    /\ help \in BOOLEAN
    /\ argPath \in Paths
    /\ video_path = ""
    /\ printedUsage = FALSE
    /\ cameraOpened = ""
    /\ windowCreated = FALSE
    /\ frame = EmptyFrame
    /\ roi_points = <<>>
    /\ input_mode = FALSE
    /\ orig_frame = EmptyFrame
    /\ roi_box = Rect0
    /\ roi_hist = NoHist
    /\ ret = NoRet
    /\ key = "none"
    /\ selKey = "none"
    /\ captures = 0
    /\ camshiftCalls = 0
    /\ clicksInSel = 0
    /\ selDone = FALSE
    /\ droppedClick = FALSE
    /\ selClicks = <<>>
    /\ iter = NoIter

(* ----------------------------- actions --------------------------------- *)
\* lines 22-31 and 124-125
GetArguments ==
    /\ pc = "start"
    /\ IF help
       THEN printedUsage' = TRUE /\ video_path' = video_path
       ELSE printedUsage' = FALSE /\ video_path' = argPath
    /\ pc' = "setup"
    /\ UNCHANGED <<help, argPath, cameraOpened, windowCreated, frame,
                   roi_points, input_mode, orig_frame, roi_box, roi_hist,
                   ret, key, selKey, captures, camshiftCalls, clicksInSel,
                   selDone, iter,
                   droppedClick, selClicks>>

\* lines 127-144
Setup ==
    /\ pc = "setup"
    /\ cameraOpened' = IF video_path = "" THEN "cam0" ELSE video_path
    /\ windowCreated' = TRUE
    /\ pc' = "capture"
    /\ UNCHANGED <<help, argPath, video_path, printedUsage, frame,
                   roi_points, input_mode, orig_frame, roi_box, roi_hist,
                   ret, key, selKey, captures, camshiftCalls, clicksInSel,
                   selDone, iter,
                   droppedClick, selClicks>>

\* lines 149-153: the source yields no frame, or its next frame
Capture ==
    /\ pc = "capture"
    /\ \E f \in {EmptyFrame} \cup
                (IF captures < MaxFrames THEN {RawFrame(captures + 1)} ELSE {}) :
          /\ frame' = f
          /\ pc' = AfterCapture(f)
    /\ captures' = captures + 1
    /\ key' = "none"
    /\ iter' = NoIter
    /\ UNCHANGED <<help, argPath, video_path, printedUsage, cameraOpened,
                   windowCreated, roi_points, input_mode, orig_frame, roi_box,
                   roi_hist, ret, selKey, camshiftCalls, clicksInSel, selDone,
                   droppedClick, selClicks>>

\* line 155
Decide ==
    /\ pc = "decide"
    /\ pc' = IF ~RectEmpty(roi_box) THEN "camshift" ELSE "show"
    /\ UNCHANGED <<help, argPath, video_path, printedUsage, cameraOpened,
                   windowCreated, frame, roi_points, input_mode, orig_frame,
                   roi_box, roi_hist, ret, key, selKey, captures,
                   camshiftCalls, clicksInSel, selDone, iter,
                   droppedClick, selClicks>>

\* lines 101-120 and 157: the search ends in some window of the frame and
\* its outline is drawn on frame
ApplyCamshift ==
    /\ pc = "camshift"
    /\ \E found \in TrackWindows :
          roi_box' = BoxAfterCamshift(roi_box, found)
    /\ frame' = [frame EXCEPT !.outline = TRUE]
    /\ camshiftCalls' = camshiftCalls + 1
    /\ iter' = [iter EXCEPT !.tracked = TRUE]
    /\ pc' = "show"
    /\ UNCHANGED <<help, argPath, video_path, printedUsage, cameraOpened,
                   windowCreated, roi_points, input_mode, orig_frame,
                   roi_hist, ret, key, selKey, captures, clicksInSel, selDone,
                   droppedClick, selClicks>>

\* line 160
Show ==
    /\ pc = "show"
    /\ iter' = [iter EXCEPT !.shown = TRUE]
    /\ pc' = "waitkey"
    /\ UNCHANGED <<help, argPath, video_path, printedUsage, cameraOpened,
                   windowCreated, frame, roi_points, input_mode, orig_frame,
                   roi_box, roi_hist, ret, key, selKey, captures,
                   camshiftCalls, clicksInSel, selDone,
                   droppedClick, selClicks>>

\* lines 33-47: the callback runs while waitKey pumps the window's events
select_roi(event, p) ==
    /\ pc \in {"waitkey", "select_wait"}
    /\ windowCreated
    /\ IF CanRecord(input_mode, event, roi_points)
       THEN /\ roi_points' = Append(roi_points, p)
            /\ frame' = [frame EXCEPT !.marks = @ \cup {p}]
       ELSE UNCHANGED <<roi_points, frame>>
    /\ orig_frame' = FrozenCopy(orig_frame, frame')
    /\ pc' = IF pc = "select_wait" THEN AfterSelectClick(roi_points') ELSE pc
    /\ droppedClick' = IF input_mode /\ event = "LBUTTONDOWN"
                       THEN ~CanRecord(input_mode, event, roi_points)
                       ELSE droppedClick
    /\ selClicks' = IF input_mode /\ event = "LBUTTONDOWN"
                       /\ Len(selClicks) < NumPoints
                    THEN Append(selClicks, p)
                    ELSE selClicks
    /\ clicksInSel' = IF input_mode /\ event = "LBUTTONDOWN"
                      THEN Min(clicksInSel + 1, NumPoints)
                      ELSE clicksInSel
    /\ UNCHANGED <<help, argPath, video_path, printedUsage, cameraOpened,
                   windowCreated, input_mode, roi_box, roi_hist,
                   ret, key, selKey, captures, camshiftCalls, selDone, iter>>

\* line 161
PollKey ==
    /\ pc = "waitkey"
    /\ \E k \in Keys : key' = k
    /\ iter' = [iter EXCEPT !.polled = TRUE]
    /\ pc' = "dispatch"
    /\ droppedClick' = FALSE
    /\ UNCHANGED <<selClicks, help, argPath, video_path, printedUsage,
                   cameraOpened,
                   windowCreated, frame, roi_points, input_mode, orig_frame,
                   roi_box, roi_hist, ret, selKey, captures, camshiftCalls,
                   clicksInSel, selDone>>

\* lines 164-166 with 56-57: main calls frame_roi
DispatchSelect ==
    /\ pc = "dispatch"
    /\ WantsSelect(key, roi_points)
    /\ input_mode' = TRUE
    /\ orig_frame' = frame
    /\ clicksInSel' = 0
    /\ pc' = "select_loop"
    /\ UNCHANGED <<help, argPath, video_path, printedUsage, cameraOpened,
                   windowCreated, frame, roi_points, roi_box, roi_hist, ret,
                   key, selKey, captures, camshiftCalls, selDone, iter,
                   droppedClick, selClicks>>

\* lines 170-173
DispatchQuit ==
    /\ pc = "dispatch"
    /\ ~WantsSelect(key, roi_points)
    /\ key = "q"
    /\ pc' = "cleanup"
    /\ UNCHANGED <<help, argPath, video_path, printedUsage, cameraOpened,
                   windowCreated, frame, roi_points, input_mode, orig_frame,
                   roi_box, roi_hist, ret, key, selKey, captures,
                   camshiftCalls, clicksInSel, selDone, iter,
                   droppedClick, selClicks>>

\* line 174: neither branch, next iteration
DispatchNext ==
    /\ pc = "dispatch"
    /\ ~WantsSelect(key, roi_points)
    /\ key # "q"
    /\ pc' = "capture"
    /\ UNCHANGED <<help, argPath, video_path, printedUsage, cameraOpened,
                   windowCreated, frame, roi_points, input_mode, orig_frame,
                   roi_box, roi_hist, ret, key, selKey, captures,
                   camshiftCalls, clicksInSel, selDone, iter,
                   droppedClick, selClicks>>

\* lines 60-62: the loop test, then imshow and the start of the wait
SelectLoop ==
    /\ pc = "select_loop"
    /\ pc' = IF NeedMorePoints(roi_points) THEN "select_wait" ELSE "compute"
    /\ selKey' = "none"
    /\ UNCHANGED <<help, argPath, video_path, printedUsage, cameraOpened,
                   windowCreated, frame, roi_points, input_mode, orig_frame,
                   roi_box, roi_hist, ret, key, captures, camshiftCalls,
                   clicksInSel, selDone, iter,
                   droppedClick, selClicks>>

\* line 63: waitKey(0) returns on any key press and the key is dropped
SelectKey ==
    /\ pc = "select_wait"
    /\ \E k \in Keys \ {"none"} : selKey' = k
    /\ pc' = "select_loop"
    /\ droppedClick' = FALSE
    /\ UNCHANGED <<selClicks, help, argPath, video_path, printedUsage,
                   cameraOpened,
                   windowCreated, frame, roi_points, input_mode, orig_frame,
                   roi_box, roi_hist, ret, key, captures, camshiftCalls,
                   clicksInSel, selDone, iter>>

\* lines 66-98: the box and the histogram; frame_roi returns
FrameRoiReturn ==
    /\ pc = "compute"
    /\ LET box == RoiBoxOf(roi_points)
       IN  ret' = <<CalcHist(orig_frame, box), box>>
    /\ selDone' = TRUE
    /\ pc' = "assign"
    /\ UNCHANGED <<help, argPath, video_path, printedUsage, cameraOpened,
                   windowCreated, frame, roi_points, input_mode, orig_frame,
                   roi_box, roi_hist, key, selKey, captures, camshiftCalls,
                   clicksInSel, iter,
                   droppedClick, selClicks>>

\* line 88: on an empty region cvtColor raises cv::Exception in the library
\* versions that assert a non-empty source; nothing catches it
FrameRoiThrow ==
    /\ pc = "compute"
    /\ RectEmpty(RoiBoxOf(roi_points))
    /\ pc' = "crashed"
    /\ UNCHANGED <<help, argPath, video_path, printedUsage, cameraOpened,
                   windowCreated, frame, roi_points, input_mode, orig_frame,
                   roi_box, roi_hist, ret, key, selKey, captures,
                   camshiftCalls, clicksInSel, selDone, iter,
                   droppedClick, selClicks>>

\* line 166: main stores the returned pair
Assign ==
    /\ pc = "assign"
    /\ LET r == AssignTie(ret, roi_hist, roi_box)
       IN  roi_hist' = r[1] /\ roi_box' = r[2]
    /\ pc' = "capture"
    /\ UNCHANGED <<help, argPath, video_path, printedUsage, cameraOpened,
                   windowCreated, frame, roi_points, input_mode, orig_frame,
                   ret, key, selKey, captures, camshiftCalls, clicksInSel,
                   selDone, iter,
                   droppedClick, selClicks>>

\* lines 176-178
Cleanup ==
    /\ pc = "cleanup"
    /\ pc' = "done"
    /\ UNCHANGED <<help, argPath, video_path, printedUsage, cameraOpened,
                   windowCreated, frame, roi_points, input_mode, orig_frame,
                   roi_box, roi_hist, ret, key, selKey, captures,
                   camshiftCalls, clicksInSel, selDone, iter,
                   droppedClick, selClicks>>

\* a left click lands on any pixel; the pointer positions of the other
\* events are two opposite corners of the frame
OtherEventPoints == {<<0, 0>>, <<MaxX, 1>>}

MouseEvent ==
    \/ \E p \in Points : select_roi("LBUTTONDOWN", p)
    \/ \E event \in Events \ {"LBUTTONDOWN"}, p \in OtherEventPoints :
          select_roi(event, p)

Next ==
    \/ GetArguments
    \/ Setup
    \/ Capture
    \/ Decide
    \/ ApplyCamshift
    \/ Show
    \/ MouseEvent
    \/ PollKey
    \/ DispatchSelect
    \/ DispatchQuit
    \/ DispatchNext
    \/ SelectLoop
    \/ SelectKey
    \/ FrameRoiReturn
    \/ FrameRoiThrow
    \/ Assign
    \/ Cleanup

Spec == Init /\ [][Next]_vars

(* ============================= claims ================================== *)
InFrameRoi == pc \in {"select_loop", "select_wait", "compute"}
\* main holds the pair that frame_roi returned
SelStored == selDone /\ pc # "assign"

\* p is one of pts and no point of pts has a smaller (larger) x+y
IsMinSumPoint(p, pts) ==
    \E i \in 1..Len(pts) :
        pts[i] = p /\ \A j \in 1..Len(pts) : Sum(pts[j]) >= Sum(p)
IsMaxSumPoint(p, pts) ==
    \E i \in 1..Len(pts) :
        pts[i] = p /\ \A j \in 1..Len(pts) : Sum(pts[j]) <= Sum(p)

\* C1: for every four selected points the box frame_roi returns has the
\* selected point of minimal x+y as its top-left corner and the selected
\* point of maximal x+y as its bottom-right corner.
C1_BoxCornersAreExtremePoints ==
    selDone =>
        /\ IsMinSumPoint(Tl(ret[2]), roi_points)
        /\ IsMaxSumPoint(Br(ret[2]), roi_points)

\* C2: no step ever leaves more than four recorded points, and a step taken
\* with four points recorded (a further left click among them) leaves the
\* points as they are.
C2_NeverFifthPoint ==
    [][/\ Len(roi_points') <= NumPoints
       /\ Len(roi_points) = NumPoints => roi_points' = roi_points]_vars

\* a left click arrived in selection mode with four points recorded and was
\* not recorded
C2_Witness ==
    /\ droppedClick
    /\ pc = "select_wait"
    /\ Len(roi_points) = NumPoints

\* C3: once camera >> frame has yielded an empty frame the loop is over:
\* main is on its way out and the iteration has neither tracked, nor shown
\* the frame, nor polled a key.
C3_EmptyFrameEndsLoop ==
    (captures > 0 /\ FrameEmpty(frame)) =>
        /\ pc \in {"cleanup", "done"}
        /\ ~iter.tracked /\ ~iter.shown /\ ~iter.polled

\* the source ran dry while tracking, and main has finished
C3_Witness ==
    /\ captures > 1
    /\ FrameEmpty(frame)
    /\ camshiftCalls > 0
    /\ pc = "done"

\* C4: started with the help flag the program prints the usage and exits:
\* no source is opened, no window is created, no frame is captured.
C4_HelpExitsEarly ==
    help => (cameraOpened = "" /\ ~windowCreated /\ captures = 0)

\* C5: a q key ends the run wherever it is pressed: in the main loop it is
\* dispatched to the exit, and returned by the wait of selection mode it
\* takes main to the exit as well.
C5_QuitCancelsWait ==
    /\ key = "q" => pc \in {"dispatch", "cleanup", "done"}
    /\ selKey = "q" => pc \in {"cleanup", "done"}

\* C6: whatever the four points are, selection ends with frame_roi
\* returning, and from then on every iteration that gets as far as showing
\* its frame has invoked apply_camshift.
C6_SelectionStartsTracking ==
    /\ pc # "crashed"
    /\ (SelStored /\ pc \in {"show", "waitkey", "dispatch"}) => iter.tracked

\* C7: with a selection completed, an i key starts a new selection, which
\* begins with the points cleared.
C7_ReselectionRestarts ==
    [][(SelStored /\ pc = "dispatch" /\ key = "i") =>
           (pc' = "select_loop" /\ roi_points' = <<>>)]_vars

\* C7, amended: with a selection completed no step starts a new one; the
\* points, the box and the histogram keep the values of that selection, an
\* i key included.
C7_NoReselection ==
    [][SelStored =>
           /\ roi_points' = roi_points
           /\ roi_box' = roi_box
           /\ roi_hist' = roi_hist
           /\ ~InFrameRoi']_vars

\* an i key was pressed in a tracked iteration and main went on to the next
\* capture
C7_Witness ==
    /\ SelStored
    /\ pc = "capture"
    /\ key = "i"
    /\ iter.tracked

\* C8: wherever a frame is captured or tracking is decided or run, box and
\* histogram are both unset or are together the pair one completed
\* selection returned.
C8_BoxAndHistTogether ==
    pc \in {"capture", "decide", "camshift"} =>
        \/ <<roi_hist, roi_box>> = NoRet
        \/ /\ selDone
           /\ <<roi_hist, roi_box>> = ret
           /\ roi_hist.box = roi_box

\* tracking is being decided on the stored result of a selection
C8_Witness ==
    /\ pc = "decide"
    /\ selDone
    /\ roi_box # Rect0
    /\ <<roi_hist, roi_box>> = ret

\* C9: apply_camshift runs only with exactly four points recorded, and as
\* long as fewer than four left clicks have arrived since selection was
\* requested, selection has not completed, nothing was tracked and the
\* program has not failed.
C9_NoTrackingOnIncompleteSelection ==
    /\ pc = "camshift" => Len(roi_points) = NumPoints
    /\ clicksInSel < NumPoints =>
           (~selDone /\ camshiftCalls = 0 /\ pc # "crashed")

\* a key ended a wait of selection mode after only three clicks
C9_Witness ==
    /\ pc = "select_loop"
    /\ selKey # "none"
    /\ input_mode
    /\ clicksInSel = NumPoints - 1
    /\ ~selDone

\* C10: while main is inside frame_roi no frame is pulled and nothing is
\* tracked, and frame_roi is left only with exactly four points recorded.
C10_SelectionBlocksLoop ==
    [][InFrameRoi =>
           /\ captures' = captures
           /\ camshiftCalls' = camshiftCalls
           /\ frame'.id = frame.id
           /\ ~InFrameRoi' => Len(roi_points') = NumPoints]_vars

\* frame_roi has just returned, on the frame it was entered with
C10_Witness ==
    /\ pc = "assign"
    /\ selDone
    /\ Len(roi_points) = NumPoints
    /\ orig_frame.id = captures
    /\ frame.id = captures

\* C11: a step changes the recorded points only as a mouse event that is a
\* left-button-down, delivered in selection mode with fewer than four points
\* recorded, and it appends exactly the coordinate of that click; events
\* before selection was requested and events other than a left-button-down
\* change nothing.
C11_OnlySelectionClicksRecord ==
    [][roi_points' # roi_points =>
           /\ pc \in {"waitkey", "select_wait"}
           /\ input_mode
           /\ Len(roi_points) < NumPoints
           /\ clicksInSel' = clicksInSel + 1
           /\ Len(selClicks') = Len(selClicks) + 1
           /\ roi_points' = Append(roi_points, selClicks'[Len(selClicks')])]_vars

\* the second point has just been recorded where the user clicked, away
\* from the first
C11_Witness ==
    /\ pc = "select_wait"
    /\ input_mode
    /\ ~droppedClick
    /\ Len(roi_points) = 2
    /\ Len(selClicks) = 2
    /\ roi_points[2] = selClicks[2]
    /\ roi_points[1] # roi_points[2]

\* C12: the frozen copy is the frame as it was when selection mode was
\* entered; no step inside frame_roi changes it, whatever markers the
\* clicks draw on the displayed frame, and the region of the returned
\* histogram is taken from that copy.
C12_FrozenCopyKeepsEntryFrame ==
    [][/\ (pc = "dispatch" /\ InFrameRoi') => orig_frame' = frame
       /\ InFrameRoi => orig_frame' = orig_frame
       /\ (InFrameRoi /\ pc' = "assign") => ret'[1].img = orig_frame]_vars

\* frame_roi has returned after markers were drawn at two places or more,
\* and the image of the histogram carries none of them
C12_Witness ==
    /\ pc = "assign"
    /\ Cardinality(frame.marks) >= 2
    /\ orig_frame.id = frame.id
    /\ orig_frame.marks = {}
    /\ ret[1].img = orig_frame

\* C13: a call of apply_camshift leaves main's box and histogram as they
\* are, and every call starts from the pair the selection returned, however
\* many frames were tracked before.
C13_TrackingKeepsSelection ==
    [][/\ pc = "camshift" => (roi_box' = roi_box /\ roi_hist' = roi_hist)
       /\ pc' = "camshift" => <<roi_hist', roi_box'>> = ret']_vars

\* the search of a second tracked frame is about to start from the
\* selected box
C13_Witness ==
    /\ pc = "camshift"
    /\ camshiftCalls >= 1
    /\ selDone
    /\ roi_box = RoiBoxOf(roi_points)
    /\ <<roi_hist, roi_box>> = ret

\* C14: the wait of selection mode ends only by a key press, never by the
\* recording of a point; the key, whatever it is, changes nothing but sends
\* frame_roi back to its test of the point count; and frame_roi goes on to
\* compute the box only from that test, after a key pressed with four
\* points recorded.
C14_OnlyAKeyEndsTheWait ==
    [][/\ (pc = "select_wait" /\ pc' # "select_wait") =>
              /\ pc' = "select_loop"
              /\ selKey' \in Keys \ {"none"}
              /\ roi_points' = roi_points
              /\ frame' = frame
              /\ orig_frame' = orig_frame
              /\ input_mode' = input_mode
              /\ <<roi_hist', roi_box'>> = <<roi_hist, roi_box>>
       /\ (pc = "select_loop" /\ Len(roi_points) < NumPoints) =>
              pc' = "select_wait"
       /\ (pc # "compute" /\ pc' = "compute") =>
              /\ pc = "select_loop"
              /\ selKey # "none"
              /\ Len(roi_points) = NumPoints]_vars

\* the fourth point has just been recorded and frame_roi is still waiting
\* for a key
C14_Witness ==
    /\ pc = "select_wait"
    /\ Len(roi_points) = NumPoints
    /\ clicksInSel = NumPoints
    /\ ~droppedClick
    /\ selKey = "none"
    /\ ~selDone

====
